---- MODULE Spec2Model ----
(***************************************************************************)
(* xbps-rindex signing (bin/xbps-rindex/sign.c).                           *)
(*                                                                         *)
(* Each process p runs one invocation of sign_repo against the same        *)
(* repository directory.  The repodata file on disk and the repository     *)
(* lock are shared; everything else is local to the invocation.  The      *)
(* invocation is cut into steps at the calls it makes on collaborators     *)
(* (open, key load, public key export, lock, flush, unlock, release), so   *)
(* that invocations interleave at exactly those points.                    *)
(***************************************************************************)
EXTENDS Integers, Sequences, FiniteSets, TLC

(* ------------------------------------------------------------------ *)
(* Bounds and input domains                                            *)
(* ------------------------------------------------------------------ *)

\* number of sign_repo invocations (processes) in one behaviour
NumProcs == 2

Procs == 1..NumProcs

\* private keys
Keys == {1, 2}

\* signer names
Signers == {"alice", "bob"}

\* the NULL char pointer of the signedby argument and of rsignedby
NULL == "(null)"

\* the (signedby, privkey) arguments an invocation may be given: no signer
\* name, or one key with either signer name, or the other key
Args == {<<NULL, 1>>, <<"alice", 1>>, <<"bob", 1>>, <<"alice", 2>>}

\* errno after a failed xbps_repo_open / xbps_repo_lock (EACCES)
Errnos == {13}

EINVAL == 22

\* package identifiers of the repository index
Pkgs == {"foo-1.0_1"}

\* values an uninitialised uint16_t may hold when it is read
StackGarbage == {0, 2048, 4096}

(* ------------------------------------------------------------------ *)
(* Dictionaries (xbps_dictionary_t restricted to get / set / count)     *)
(* ------------------------------------------------------------------ *)

Fields == {"public-key", "public-key-size", "signature-by", "signature-type"}

xbps_dictionary_create == [f \in {} |-> 0]

xbps_dictionary_set(d, k, v) ==
    [f \in (DOMAIN d) \cup {k} |-> IF f = k THEN v ELSE d[f]]

DictHas(d, k) == k \in DOMAIN d

(* ------------------------------------------------------------------ *)
(* Keys                                                               *)
(* ------------------------------------------------------------------ *)

\* RSA_size(rsa): modulus length in bytes (a 2048-bit and a 4096-bit key)
RSA_size(k) == IF k = 1 THEN 256 ELSE 512

\* the PEM text PEM_write_bio_RSA_PUBKEY produces for the key, as read
\* back from the memory BIO: an armour line and the key's own body
pubkey_from_privkey(k) == <<"-----BEGIN PUBLIC KEY-----", k>>

\* xbps_data_create_data(buf, strlen(buf)): the bytes of the PEM text
xbps_data_create_data(buf) == [bytes |-> buf]

\* pubkeysize held in a uint8_t
PubKeySizeByte(k) == (RSA_size(k) * 8) % 256

\* pubkeysize = RSA_size(rsa) * 8, stored in a uint16_t
PubKeySize(k) == (RSA_size(k) * 8) % 65536

(* ------------------------------------------------------------------ *)
(* Files (package files and their detached signatures)                 *)
(* ------------------------------------------------------------------ *)

\* number of sign_pkgs runs in one behaviour
MaxRuns == 2

\* package file paths, as sequences of name and suffixes
BinPkgs == {<<"a.xbps">>, <<"b.xbps">>, <<"c.xbps">>}

\* argv[args..argmax-1] of a sign_pkgs run
ArgLists == { <<<<"a.xbps">>, <<"b.xbps">>, <<"c.xbps">>>>,
              <<<<"b.xbps">>, <<"a.xbps">>>> }

\* sigfile = xbps_xasprintf("%s.sig", binpkg)
\* a signature path that is the package path itself
SigFileIsBinPkg(binpkg) == binpkg

SigFileOf(binpkg) == Append(binpkg, "sig")

Paths == BinPkgs \cup {SigFileOf(b) : b \in BinPkgs}

\* a path with no file
NoFile == [exists |-> FALSE, readable |-> FALSE, data |-> <<>>]

\* a file of mode 0644 holding data (a sequence of blocks of bytes)
File(data) == [exists |-> TRUE, readable |-> TRUE, data |-> data]

\* the content of each package file: one block
PkgData(b) == << <<IF b = <<"a.xbps">> THEN 1 ELSE IF b = <<"b.xbps">> THEN 2 ELSE 3>> >>

\* xbps_file_sha256_raw: a digest of the whole content of the file
Sha256(data) == (7 * data[1][1] + 3) % 11

\* siglen: the signature has RSA_size(rsa) bytes, here in blocks of 256
SigLen(k) == RSA_size(k) \div 256

\* RSA_sign(NID_sha1, digest, ..., sigret, siglen, rsa)
RSA_sign(k, digest) == [j \in 1..SigLen(k) |-> <<k, digest, j>>]

\* a signature file left by an earlier signing with key 2, when the
\* package had other content
OldSig(b) == File(RSA_sign(2, (Sha256(PkgData(b)) + 1) % 11))

\* file systems before the first sign_pkgs run: every package file is
\* there, b.xbps possibly unreadable; each signature file is absent or old
InitFiles ==
    { [q \in Paths |->
         IF q \in BinPkgs
         THEN [File(PkgData(q)) EXCEPT !.readable = (q # <<"b.xbps">> \/ rd)]
         ELSE IF q \in S THEN OldSig(SubSeq(q, 1, 1)) ELSE NoFile] :
        rd \in BOOLEAN, S \in SUBSET {SigFileOf(b) : b \in BinPkgs} }

\* the file system while only sign_repo runs: no signature files
PlainFiles ==
    [q \in Paths |-> IF q \in BinPkgs THEN File(PkgData(q)) ELSE NoFile]

(* ------------------------------------------------------------------ *)
(* State                                                              *)
(* ------------------------------------------------------------------ *)

VARIABLES
    repodata,      \* the repodata file on disk: [idx, idxmeta]
    lockOwner,     \* process holding the repository lock, 0 when free
    lastWriter,    \* history: process whose flush last wrote repodata, 0 if none
    pc,            \* position of each invocation in sign_repo
    signedby,      \* argument: signer name or NULL
    privkey,       \* argument: the key the private key file holds
    repo,          \* struct xbps_repo *: [handle, idx, idxmeta, writer]
    rsa,           \* RSA *: "NULL", "loaded" or "freed"
    flush,         \* local flag: metadata must be rewritten
    meta,          \* the new index-meta dictionary
    flush_failed,  \* local: the value repodata_flush returned
    rv,            \* local error code
    ret,           \* value returned by sign_repo (exit status when exited)
    calls,         \* history: collaborator calls made and how they ended
    fs,            \* package and signature files: path -> file
    runs           \* the sign_pkgs runs so far, the last one the current

\* the state sign_repo works on
repovars == <<repodata, lockOwner, lastWriter, pc, signedby, privkey, repo,
              rsa, flush, meta, flush_failed, rv, ret, calls>>

\* the state sign_pkgs works on
pkgvars == <<fs, runs>>

vars == <<repovars, pkgvars>>

\* struct xbps_repo *repo = NULL
NoRepo ==
    [handle |-> "NULL", idx |-> {}, idxmeta |-> xbps_dictionary_create,
     writer |-> 0]

\* the metadata a repository signed with key k by signer s carries
SignedMeta(k, s) ==
    [f \in Fields |->
        CASE f = "public-key" -> xbps_data_create_data(pubkey_from_privkey(k))
          [] f = "public-key-size" -> PubKeySize(k)
          [] f = "signature-by" -> s
          [] f = "signature-type" -> "rsa"]

\* d restricted to the fields in S
Restrict(d, S) == [f \in S |-> d[f]]

\* index-meta dictionaries a repodata file may hold before the first run:
\* any subset of the four fields of a repository signed with key 1 by
\* "alice", or all four with the size of another key
InitMetas ==
    { Restrict(SignedMeta(1, "alice"), S) : S \in SUBSET Fields }
      \cup { xbps_dictionary_set(SignedMeta(1, "alice"), "public-key-size",
                                 PubKeySize(2)) }

\* no sign_repo invocation has started
InvocationsIdle ==
    /\ lockOwner = 0
    /\ lastWriter = 0
    /\ pc = [p \in Procs |-> "idle"]
    /\ signedby = [p \in Procs |-> NULL]
    /\ privkey = [p \in Procs |-> 1]
    /\ repo = [p \in Procs |-> NoRepo]
    /\ rsa = [p \in Procs |-> "NULL"]
    /\ flush = [p \in Procs |-> FALSE]
    /\ meta = [p \in Procs |-> xbps_dictionary_create]
    /\ flush_failed = [p \in Procs |-> FALSE]
    /\ rv = [p \in Procs |-> 0]
    /\ ret = [p \in Procs |-> 0]
    /\ calls = [p \in Procs |-> <<>>]

Init ==
    /\ repodata \in [idx : SUBSET Pkgs, idxmeta : InitMetas]
    /\ InvocationsIdle
    /\ fs = PlainFiles
    /\ runs = <<>>

(* ------------------------------------------------------------------ *)
(* Collaborators (lib/repo.c, repoflush.c): modelled at their interface *)
(* ------------------------------------------------------------------ *)

\* xbps_repo_open: a handle holding the index and index-meta read from disk
\* (writer is history: whose flush produced the file that was read)
xbps_repo_open ==
    [handle |-> "open", idx |-> repodata.idx, idxmeta |-> repodata.idxmeta,
     writer |-> lastWriter]

\* xbps_repo_lock: exclusive; can be acquired only while nobody holds it
xbps_repo_lock(p, ok) ==
    IF ok THEN lockOwner = 0 /\ lockOwner' = p
          ELSE UNCHANGED lockOwner

\* xbps_repo_unlock
xbps_repo_unlock(p) == lockOwner' = IF lockOwner = p THEN 0 ELSE lockOwner

\* repodata_flush: writes index and metadata atomically, or nothing
repodata_flush(p, idx, m, ok) ==
    IF ok THEN /\ repodata' = [idx |-> idx, idxmeta |-> m]
               /\ lastWriter' = p
          ELSE UNCHANGED <<repodata, lastWriter>>

(* ------------------------------------------------------------------ *)
(* sign_repo                                                          *)
(* ------------------------------------------------------------------ *)

\* the signer name check left out
SignedbyNeverUnset(sb) == FALSE

\* if (signedby == NULL)
SignedbyUnset(sb) == sb = NULL

\* the empty-index check left out
IndexNeverEmpty(idx) == FALSE

\* if (xbps_dictionary_count(repo->idx) == 0)
IndexEmpty(idx) == Cardinality(idx) = 0

\* NeedsFlush without the comparison of the signer name
NeedsFlushKeyOnly(idxmeta, data, pubkeysize, rpubkeysize, sb) ==
    \/ ~(DictHas(idxmeta, "public-key") /\ idxmeta["public-key"] = data)
    \/ rpubkeysize # pubkeysize

\* NeedsFlush with the result of strcmp read the wrong way round
NeedsFlushStrcmpInverted(idxmeta, data, pubkeysize, rpubkeysize, sb) ==
    \/ ~(DictHas(idxmeta, "public-key") /\ idxmeta["public-key"] = data)
    \/ rpubkeysize # pubkeysize
    \/ ~DictHas(idxmeta, "signature-by")
    \/ idxmeta["signature-by"] = sb

\* the three comparisons that set flush; rpubkeysize is the value found in
\* the uint16_t after xbps_dictionary_get_uint16
NeedsFlush(idxmeta, data, pubkeysize, rpubkeysize, sb) ==
    \/ ~(DictHas(idxmeta, "public-key") /\ idxmeta["public-key"] = data)
    \/ rpubkeysize # pubkeysize
    \/ ~DictHas(idxmeta, "signature-by")
    \/ idxmeta["signature-by"] # sb

\* values rpubkeysize may hold after xbps_dictionary_get_uint16: the stored
\* number, or whatever the uninitialised local held when the key is absent
RPubKeySizes(idxmeta) ==
    IF DictHas(idxmeta, "public-key-size")
    THEN {idxmeta["public-key-size"]}
    ELSE StackGarbage

\* NewMeta without the signature-type entry
NewMetaWithoutType(data, pubkeysize, sb) ==
    xbps_dictionary_set(
      xbps_dictionary_set(
        xbps_dictionary_set(xbps_dictionary_create, "public-key", data),
        "public-key-size", pubkeysize),
      "signature-by", sb)

\* the four xbps_dictionary_set calls on the fresh meta dictionary
NewMeta(data, pubkeysize, sb) ==
    xbps_dictionary_set(
      xbps_dictionary_set(
        xbps_dictionary_set(
          xbps_dictionary_set(xbps_dictionary_create, "public-key", data),
          "public-key-size", pubkeysize),
        "signature-by", sb),
      "signature-type", "rsa")

\* return rv ? -1 : 0
ReturnValue(r) == IF r # 0 THEN -1 ELSE 0

\* out: RSA_free(rsa), xbps_repo_release(repo), return rv ? -1 : 0;
\* r, k and h are rv, rsa and repo as they are when control reaches out,
\* log the collaborator calls made on the way there
Out(p, r, k, h, log) ==
    /\ rv' = [rv EXCEPT ![p] = r]
    /\ rsa' = [rsa EXCEPT ![p] = IF k = "loaded" THEN "freed" ELSE k]
    /\ repo' = [repo EXCEPT ![p] =
                  IF h.handle = "open" THEN [h EXCEPT !.handle = "released"] ELSE h]
    /\ calls' = [calls EXCEPT ![p] =
                   @ \o log \o (IF h.handle = "open" THEN <<"release">> ELSE <<>>)]
    /\ ret' = [ret EXCEPT ![p] = ReturnValue(r)]
    /\ pc' = [pc EXCEPT ![p] = "done"]

\* entry: arguments are bound; a missing signer name returns -1 at once
Begin(p) ==
    /\ pc[p] = "idle"
    /\ \E a \in Args :
         /\ signedby' = [signedby EXCEPT ![p] = a[1]]
         /\ privkey' = [privkey EXCEPT ![p] = a[2]]
         /\ IF SignedbyUnset(a[1])
            THEN /\ ret' = [ret EXCEPT ![p] = -1]
                 /\ pc' = [pc EXCEPT ![p] = "done"]
            ELSE /\ pc' = [pc EXCEPT ![p] = "open"]
                 /\ UNCHANGED ret
    /\ UNCHANGED <<repodata, lockOwner, lastWriter, repo, rsa, flush, meta,
                   flush_failed, rv, calls>>
    /\ UNCHANGED pkgvars

\* xbps_repo_open and the empty-index check
Open(p) ==
    /\ pc[p] = "open"
    /\ \/ \E e \in Errnos : Out(p, e, rsa[p], repo[p], <<"open_failed">>)
       \/ IF IndexEmpty(xbps_repo_open.idx)
          THEN Out(p, EINVAL, rsa[p], xbps_repo_open, <<"open">>)
          ELSE /\ repo' = [repo EXCEPT ![p] = xbps_repo_open]
               /\ calls' = [calls EXCEPT ![p] = Append(@, "open")]
               /\ pc' = [pc EXCEPT ![p] = "derive_key"]
               /\ UNCHANGED <<rsa, rv, ret>>
    /\ UNCHANGED <<repodata, lockOwner, lastWriter, signedby, privkey, flush,
                   meta, flush_failed>>
    /\ UNCHANGED pkgvars

\* ssl_init, load_rsa_key (the process exits when the key cannot be read)
\* and pubkey_from_privkey (NULL when the public key cannot be written)
DeriveKey(p) ==
    /\ pc[p] = "derive_key"
    /\ \/ /\ pc' = [pc EXCEPT ![p] = "exited"]
          /\ ret' = [ret EXCEPT ![p] = 1]
          /\ calls' = [calls EXCEPT ![p] = Append(@, "load_key_failed")]
          /\ UNCHANGED <<rsa, repo, rv>>
       \/ Out(p, EINVAL, "loaded", repo[p], <<"load_key", "export_failed">>)
       \/ /\ rsa' = [rsa EXCEPT ![p] = "loaded"]
          /\ calls' = [calls EXCEPT ![p] = @ \o <<"load_key", "export">>]
          /\ pc' = [pc EXCEPT ![p] = "reconcile"]
          /\ UNCHANGED <<repo, rv, ret>>
    /\ UNCHANGED <<repodata, lockOwner, lastWriter, signedby, privkey, flush,
                   meta, flush_failed>>
    /\ UNCHANGED pkgvars

\* comparison of the stored metadata with the current key and signer, and
\* construction of the new metadata
Reconcile(p) ==
    /\ pc[p] = "reconcile"
    /\ \E rpubkeysize \in RPubKeySizes(repo[p].idxmeta) :
         LET data == xbps_data_create_data(pubkey_from_privkey(privkey[p]))
             pubkeysize == PubKeySize(privkey[p])
             f == NeedsFlush(repo[p].idxmeta, data, pubkeysize, rpubkeysize,
                             signedby[p])
         IN /\ flush' = [flush EXCEPT ![p] = f]
            /\ IF ~f
               THEN /\ Out(p, rv[p], rsa[p], repo[p], <<>>)
                    /\ UNCHANGED meta
               ELSE /\ meta' = [meta EXCEPT ![p] =
                                  NewMeta(data, pubkeysize, signedby[p])]
                    /\ pc' = [pc EXCEPT ![p] = "lock"]
                    /\ UNCHANGED <<rsa, repo, rv, ret, calls>>
    /\ UNCHANGED <<repodata, lockOwner, lastWriter, signedby, privkey,
                   flush_failed>>
    /\ UNCHANGED pkgvars

\* Lock without the goto out: a failed lock falls through to the flush
LockFallsThrough(p) ==
    /\ pc[p] = "lock"
    /\ \/ /\ xbps_repo_lock(p, TRUE)
          /\ calls' = [calls EXCEPT ![p] = Append(@, "lock")]
          /\ UNCHANGED rv
       \/ /\ xbps_repo_lock(p, FALSE)
          /\ calls' = [calls EXCEPT ![p] = Append(@, "lock_failed")]
          /\ \E e \in Errnos : rv' = [rv EXCEPT ![p] = e]
    /\ pc' = [pc EXCEPT ![p] = "flush"]
    /\ UNCHANGED <<repodata, lastWriter, signedby, privkey, flush, meta,
                   flush_failed, rsa, repo, ret>>
    /\ UNCHANGED pkgvars

\* xbps_repo_lock; rv = errno and goto out when it fails
Lock(p) ==
    /\ pc[p] = "lock"
    /\ \/ /\ xbps_repo_lock(p, TRUE)
          /\ calls' = [calls EXCEPT ![p] = Append(@, "lock")]
          /\ pc' = [pc EXCEPT ![p] = "flush"]
          /\ UNCHANGED <<rsa, repo, rv, ret>>
       \/ /\ xbps_repo_lock(p, FALSE)
          /\ \E e \in Errnos : Out(p, e, rsa[p], repo[p], <<"lock_failed">>)
    /\ UNCHANGED <<repodata, lastWriter, signedby, privkey, flush, meta,
                   flush_failed>>
    /\ UNCHANGED pkgvars

\* flush_failed = repodata_flush(..., repo->idx, meta, ...)
Flush(p) ==
    /\ pc[p] = "flush"
    /\ \E ok \in BOOLEAN :
         /\ repodata_flush(p, repo[p].idx, meta[p], ok)
         /\ flush_failed' = [flush_failed EXCEPT ![p] = ok]
         /\ calls' = [calls EXCEPT ![p] =
                        Append(@, IF ok THEN "flush" ELSE "flush_failed")]
    /\ pc' = [pc EXCEPT ![p] = "unlock"]
    /\ UNCHANGED <<lockOwner, signedby, privkey, repo, rsa, flush, meta, rv,
                   ret>>
    /\ UNCHANGED pkgvars

\* the message printed after the unlock: "failed to write repodata" when
\* flush_failed is false, "Initialized signed repository" otherwise
Message(ff) == IF ~ff THEN "stderr: failed to write repodata"
                      ELSE "stdout: Initialized signed repository"

\* Unlock with the unlock placed after the failure branch: a failed flush
\* leaves through out with the lock still held
UnlockAfterCheck(p) ==
    /\ pc[p] = "unlock"
    /\ IF ~flush_failed[p]
       THEN /\ UNCHANGED lockOwner
            /\ Out(p, rv[p], rsa[p], repo[p], <<Message(flush_failed[p])>>)
       ELSE /\ xbps_repo_unlock(p)
            /\ Out(p, rv[p], rsa[p], repo[p],
                   <<Message(flush_failed[p]), "unlock">>)
    /\ UNCHANGED <<repodata, lastWriter, signedby, privkey, flush, meta,
                   flush_failed>>
    /\ UNCHANGED pkgvars

\* xbps_repo_unlock, the message, and out with rv as it was
Unlock(p) ==
    /\ pc[p] = "unlock"
    /\ xbps_repo_unlock(p)
    /\ Out(p, rv[p], rsa[p], repo[p], <<"unlock", Message(flush_failed[p])>>)
    /\ UNCHANGED <<repodata, lastWriter, signedby, privkey, flush, meta,
                   flush_failed>>
    /\ UNCHANGED pkgvars

Next ==
    \E p \in Procs :
        \/ Begin(p)
        \/ Open(p)
        \/ DeriveKey(p)
        \/ Reconcile(p)
        \/ Lock(p)
        \/ Flush(p)
        \/ Unlock(p)

Spec == Init /\ [][Next]_vars

(* ------------------------------------------------------------------ *)
(* Another process updating the index of the same repository           *)
(* ------------------------------------------------------------------ *)

\* packages another xbps-rindex process may register
AddedPkgs == {"bar-2.0_1"}

\* another process takes the repository lock, rewrites repodata with one
\* more package in the index and the index-meta as it is, and unlocks
RindexAdd ==
    /\ lockOwner = 0
    /\ \E n \in AddedPkgs \ repodata.idx :
         repodata' = [repodata EXCEPT !.idx = @ \cup {n}]
    /\ UNCHANGED <<lockOwner, lastWriter, pc, signedby, privkey, repo, rsa,
                   flush, meta, flush_failed, rv, ret, calls>>
    /\ UNCHANGED pkgvars

\* a non-empty repository, unsigned or fully signed
InitUpdates ==
    /\ repodata \in [idx : {Pkgs},
                      idxmeta : {xbps_dictionary_create, SignedMeta(1, "alice")}]
    /\ InvocationsIdle
    /\ fs = PlainFiles
    /\ runs = <<>>

NextUpdates == Next \/ RindexAdd

SpecUpdates == InitUpdates /\ [][NextUpdates]_vars

(* ------------------------------------------------------------------ *)
(* sign_pkg and sign_pkgs                                              *)
(* ------------------------------------------------------------------ *)

\* access(sigfile, R_OK) == 0
access_R_OK(f) == f.exists /\ f.readable

\* the skip test with the force flag read the wrong way round
SkipPkgWhenForced(force, sigf) == force /\ access_R_OK(sigf)

\* if (!force && access(sigfile, R_OK) == 0): the package is skipped
SkipPkg(force, sigf) == ~force /\ access_R_OK(sigf)

\* open without O_TRUNC: an existing file keeps its content
OpenNoTrunc(f) ==
    IF f.exists
    THEN { [ok |-> TRUE, err |-> "", file |-> f],
           [ok |-> FALSE, err |-> "EACCES", file |-> f] }
    ELSE { [ok |-> FALSE, err |-> "ENOENT", file |-> f] }

\* open(sigfile, O_WRONLY|O_TRUNC, 0644): there is no O_CREAT, so a missing
\* file is an error; an existing one is emptied, or cannot be opened
OpenTrunc(f) ==
    IF f.exists
    THEN { [ok |-> TRUE, err |-> "", file |-> [f EXCEPT !.data = <<>>]],
           [ok |-> FALSE, err |-> "EACCES", file |-> f] }
    ELSE { [ok |-> FALSE, err |-> "ENOENT", file |-> f] }

\* creat(sigfile, 0644): a new empty file of mode 0644, or the existing
\* file emptied, or an error
Creat(f) ==
    { [ok |-> TRUE, err |-> "",
       file |-> IF f.exists THEN [f EXCEPT !.data = <<>>] ELSE File(<<>>)],
      [ok |-> FALSE, err |-> "EACCES", file |-> f] }

\* the file descriptor for the signature: open when force, creat otherwise
OpenSigFile(force, f) == IF force THEN OpenTrunc(f) ELSE Creat(f)

\* write(sigfile_fd, sig, siglen) at offset 0 storing the first n blocks
WriteSig(f, sig, n) ==
    [f EXCEPT !.data = SubSeq(sig, 1, n) \o SubSeq(@, n + 1, Len(@))]

\* what one call of sign_pkg may do: the steps taken (ops), how it ended
\* (why), its return value, whether load_rsa_key ended the process, and the
\* signature file it leaves
sign_pkg(force, k, pkgf, sigf) ==
    IF SkipPkg(force, sigf)
    THEN { [why |-> "skipped", ops |-> <<"access">>, rv |-> 0,
            exited |-> FALSE, sig |-> sigf] }
    ELSE
      LET pre == IF force THEN <<>> ELSE <<"access">>
          sig == RSA_sign(k, Sha256(pkgf.data))
          Fail(why, ops, f) ==
              [why |-> why, ops |-> pre \o ops, rv |-> EINVAL,
               exited |-> FALSE, sig |-> f]
      IN { [why |-> "load_key_failed", ops |-> pre \o <<"load_rsa_key">>,
            rv |-> 0, exited |-> TRUE, sig |-> sigf] }
         \cup
         ( IF ~access_R_OK(pkgf)
           THEN { Fail("digest_failed", <<"load_rsa_key", "sha256">>, sigf) }
           ELSE
             { Fail("sign_failed", <<"load_rsa_key", "sha256", "RSA_sign">>,
                    sigf) }
             \cup
             { Fail("create_failed:" \o o.err,
                    <<"load_rsa_key", "sha256", "RSA_sign", "open">>, o.file) :
                 o \in {x \in OpenSigFile(force, sigf) : ~x.ok} }
             \cup
             { IF n < Len(sig)
               THEN Fail("write_failed",
                         <<"load_rsa_key", "sha256", "RSA_sign", "open", "write">>,
                         WriteSig(o.file, sig, n))
               ELSE [why |-> "signed",
                     ops |-> pre \o <<"load_rsa_key", "sha256", "RSA_sign",
                                      "open", "write">>,
                     rv |-> 0, exited |-> FALSE,
                     sig |-> WriteSig(o.file, sig, n)] :
                 o \in {x \in OpenSigFile(force, sigf) : x.ok},
                 n \in 0..Len(sig) } )

\* a loop that goes on to the next package whatever sign_pkg returned
LoopStepIgnoresRv(cur, o, e) ==
    IF o.exited
    THEN [cur EXCEPT !.pc = "exited", !.ret = 1, !.log = Append(@, e)]
    ELSE [cur EXCEPT !.i = @ + 1, !.log = Append(@, e)]

\* the body of the for loop after sign_pkg: if (rv != 0) return rv;
\* e is the record of the call just made
LoopStep(cur, o, e) ==
    IF o.exited
    THEN [cur EXCEPT !.pc = "exited", !.ret = 1, !.log = Append(@, e)]
    ELSE IF o.rv # 0
    THEN [cur EXCEPT !.pc = "done", !.ret = o.rv, !.log = Append(@, e)]
    ELSE [cur EXCEPT !.i = @ + 1, !.log = Append(@, e)]

\* the run in progress or last finished
Cur == runs[Len(runs)]

\* sign_pkgs is called: ssl_init, i = args
SignPkgsBegin ==
    /\ Len(runs) < MaxRuns
    /\ runs # <<>> => Cur.pc \in {"done", "exited"}
    /\ \E argv \in ArgLists, force \in BOOLEAN :
         runs' = Append(runs, [argv |-> argv, force |-> force, privkey |-> 1,
                               i |-> 1, pc |-> "loop", ret |-> 0,
                               log |-> <<>>, fs0 |-> fs])
    /\ UNCHANGED <<fs, repovars>>

\* one iteration of the loop: sign_pkg(xhp, argv[i], privkey, force)
SignPkg ==
    /\ runs # <<>>
    /\ Cur.pc = "loop"
    /\ Cur.i <= Len(Cur.argv)
    /\ LET binpkg == Cur.argv[Cur.i]
           sigfile == SigFileOf(binpkg)
       IN \E o \in sign_pkg(Cur.force, Cur.privkey, fs[binpkg], fs[sigfile]) :
            /\ fs' = [fs EXCEPT ![sigfile] = o.sig]
            /\ runs' = [runs EXCEPT ![Len(runs)] =
                          LoopStep(Cur, o,
                                   [binpkg |-> binpkg, why |-> o.why,
                                    ops |-> o.ops, rv |-> o.rv,
                                    before |-> fs[sigfile], after |-> o.sig])]
    /\ UNCHANGED repovars

\* the loop has run through argv: return 0
SignPkgsReturn ==
    /\ runs # <<>>
    /\ Cur.pc = "loop"
    /\ Cur.i > Len(Cur.argv)
    /\ runs' = [runs EXCEPT ![Len(runs)] = [Cur EXCEPT !.pc = "done", !.ret = 0]]
    /\ UNCHANGED <<fs, repovars>>

\* a signed repository nobody is working on, and any of the file systems
InitPkgs ==
    /\ repodata = [idx |-> Pkgs, idxmeta |-> SignedMeta(1, "alice")]
    /\ InvocationsIdle
    /\ fs \in InitFiles
    /\ runs = <<>>

NextPkgs == SignPkgsBegin \/ SignPkg \/ SignPkgsReturn

SpecPkgs == InitPkgs /\ [][NextPkgs]_vars

(* ------------------------------------------------------------------ *)
(* Properties                                                         *)
(* ------------------------------------------------------------------ *)

Did(p, c) == \E i \in DOMAIN calls[p] : calls[p][i] = c

Times(p, c) == Cardinality({i \in DOMAIN calls[p] : calls[p][i] = c})

Returned(p) == pc[p] = "done"

Ended(p) == pc[p] \in {"done", "exited"}

LockAttempts(p) == Times(p, "lock") + Times(p, "lock_failed")

FlushCalls(p) == Times(p, "flush") + Times(p, "flush_failed")

\* the fatal errors of an invocation that has returned
FatalError(p) ==
    \/ signedby[p] = NULL
    \/ Did(p, "open_failed")
    \/ (Did(p, "open") /\ repo[p].idx = {})
    \/ Did(p, "export_failed")
    \/ Did(p, "lock_failed")
    \/ Did(p, "flush_failed")

\* C1: sign_repo returns 0 only when it completed without error (no change
\* found, or lock acquired and flush succeeded) and non-zero on every fatal
\* error: signer name missing, repository cannot be opened, index empty,
\* public key export fails, lock acquisition fails, flush reports failure.
C1_ReturnsNonZeroOnEveryFatalError ==
    \A p \in Procs : Returned(p) => (ret[p] # 0 <=> FatalError(p))

\* C2: of two runs in succession with the same key and signer name, the
\* first finding the metadata absent or stale and its flush succeeding, the
\* first performs exactly one flush and the second, which reads what the
\* first wrote, attempts no lock and no flush and returns 0.
C2_SecondRunIsNoOp ==
    \A p, q \in Procs :
        ( /\ p # q
          /\ Did(p, "flush")
          /\ repo[q].handle # "NULL"
          /\ repo[q].writer = p
          /\ signedby[q] = signedby[p]
          /\ privkey[q] = privkey[p] )
        => /\ FlushCalls(p) = 1
           /\ LockAttempts(q) = 0
           /\ FlushCalls(q) = 0
           /\ pc[q] \notin {"lock", "flush", "unlock"}
           /\ (Returned(q) /\ ~Did(q, "export_failed") => ret[q] = 0)

\* the second of two runs in succession has returned 0 after the comparison
C2_Witness ==
    \E p, q \in Procs :
        /\ p # q
        /\ Returned(p) /\ Did(p, "flush")
        /\ repo[q].writer = p
        /\ signedby[q] = signedby[p] /\ privkey[q] = privkey[p]
        /\ Returned(q) /\ Did(q, "export") /\ ~flush[q] /\ ret[q] = 0

\* the stored metadata an invocation read differs from its key and signer:
\* public-key absent or different, public-key-size different, signature-by
\* absent or different
Drift(p) ==
    LET m == repo[p].idxmeta
    IN \/ "public-key" \notin DOMAIN m
       \/ m["public-key"] # [bytes |-> pubkey_from_privkey(privkey[p])]
       \/ ("public-key-size" \in DOMAIN m
             /\ m["public-key-size"] # RSA_size(privkey[p]) * 8)
       \/ "signature-by" \notin DOMAIN m
       \/ m["signature-by"] # signedby[p]

\* the invocation has compared the stored metadata with its key and signer
Compared(p) == Did(p, "export") /\ pc[p] # "reconcile"

\* C3: for every stored metadata, key and signer name, sign_repo on a
\* non-empty repository attempts the lock and flush if and only if the
\* stored public-key is absent or differs, the stored public-key-size
\* differs, or the stored signature-by is absent or differs; otherwise it
\* takes no lock, calls no flush and writes nothing.
C3_RewriteIffDrift ==
    \A p \in Procs :
        Compared(p) /\ Returned(p) =>
            /\ (LockAttempts(p) = 1 <=> Drift(p))
            /\ (~Drift(p) => FlushCalls(p) = 0 /\ lastWriter # p)

\* C4: the flush happens only while this invocation holds the lock, after
\* the lock and before the unlock; an invocation makes at most one lock
\* acquisition and at most one flush; the lock is released before sign_repo
\* returns, whether the flush succeeded or failed.
C4_FlushInsideLock ==
    \A p \in Procs :
        /\ pc[p] = "flush" => lockOwner = p
        /\ LockAttempts(p) <= 1
        /\ FlushCalls(p) <= 1
        /\ FlushCalls(p) = 1 =>
             /\ Len(calls[p]) >= 4
             /\ calls[p][4] = "lock"
             /\ calls[p][5] \in {"flush", "flush_failed"}
             /\ Len(calls[p]) >= 6 => calls[p][6] = "unlock"
        /\ Ended(p) => /\ lockOwner # p
                       /\ Times(p, "unlock") = Times(p, "lock")

\* invocations have returned after a flush that succeeded and after one
\* that failed, and the lock is free again
C4_Witness ==
    \E p, q \in Procs :
        /\ Returned(p) /\ Did(p, "flush") /\ Did(p, "unlock")
        /\ Returned(q) /\ Did(q, "flush_failed") /\ Did(q, "unlock")
        /\ lockOwner = 0

\* C5: of concurrent invocations at most one is between its lock and its
\* unlock at any time, and once all have ended the metadata on disk, if any
\* of them wrote it, is the complete four-field metadata of exactly one
\* invocation that flushed, never a mixture.
C5_FlushesSerialized ==
    /\ Cardinality({p \in Procs : pc[p] \in {"flush", "unlock"}}) <= 1
    /\ ((\A p \in Procs : Ended(p)) /\ lastWriter # 0 =>
          \E p \in Procs :
              /\ Did(p, "flush")
              /\ repodata.idxmeta = SignedMeta(privkey[p], signedby[p]))

\* two invocations with different metadata overlapped (the second began
\* to lock while the first was between lock and unlock), both flushed
C5_Witness ==
    \E p, q \in Procs :
        /\ p # q
        /\ Did(p, "flush") /\ Did(q, "flush")
        /\ SignedMeta(privkey[p], signedby[p]) # SignedMeta(privkey[q], signedby[q])
        /\ repo[q].writer # p /\ repo[p].writer # q
        /\ \A r \in Procs : Ended(r)

\* an invocation whose lock acquisition failed has returned non-zero
\* without calling the flush
LockFailureAborts ==
    \A p \in Procs :
        Did(p, "lock_failed") =>
            /\ Returned(p)
            /\ ret[p] # 0
            /\ FlushCalls(p) = 0
            /\ lastWriter # p

\* the step in which a lock acquisition fails leaves repodata as it was
LockFailureWritesNothing ==
    \A p \in Procs :
        Did(p, "lock_failed")' /\ ~Did(p, "lock_failed") =>
            repodata' = repodata

\* C6: if lock acquisition fails in sign_repo, the flush is never
\* attempted, the on-disk repository state is unchanged, and sign_repo
\* returns non-zero.
C6_LockFailureAbortsRewrite ==
    []LockFailureAborts /\ [][LockFailureWritesNothing]_vars

\* an invocation found the metadata stale, failed to lock and returned
C6_Witness ==
    \E p \in Procs :
        /\ Did(p, "lock_failed") /\ flush[p] /\ Returned(p) /\ ret[p] = -1
        /\ repodata.idxmeta = repo[p].idxmeta

\* C7: sign_repo on a repository whose index has zero packages returns
\* non-zero and never reaches key loading, reconciliation, lock acquisition
\* or flush, for every stored metadata, key and signer name.
C7_EmptyIndexRejected ==
    \A p \in Procs :
        repo[p].handle # "NULL" /\ repo[p].idx = {} =>
            /\ Returned(p)
            /\ ret[p] # 0
            /\ calls[p] = <<"open", "release">>
            /\ rsa[p] = "NULL"
            /\ ~flush[p]
            /\ lastWriter # p

\* an invocation opened a signed repository with an empty index and returned
C7_Witness ==
    \E p \in Procs :
        /\ repo[p].handle = "released" /\ repo[p].idx = {}
        /\ repo[p].idxmeta = SignedMeta(1, "alice")
        /\ signedby[p] = "bob"
        /\ Returned(p) /\ ret[p] = -1

\* C8: without a signer name sign_repo fails with a non-zero result before
\* any I/O: it does not open the repository, load the key, take the lock or
\* flush, so no repository is marked signed without a signer identity.
C8_SignerNameRequired ==
    /\ \A p \in Procs :
         pc[p] # "idle" /\ signedby[p] = NULL =>
            /\ Returned(p)
            /\ ret[p] # 0
            /\ calls[p] = <<>>
            /\ repo[p].handle = "NULL"
            /\ rsa[p] = "NULL"
            /\ lastWriter # p
    /\ lastWriter # 0 => repodata.idxmeta["signature-by"] # NULL

\* an invocation without a signer name has returned, another has signed
C8_Witness ==
    \E p, q \in Procs :
        /\ signedby[p] = NULL /\ Returned(p) /\ ret[p] = -1
        /\ Did(q, "flush")

\* C9: on every path through sign_repo that has opened the repository,
\* every failure path included (key load, public key export, lock, flush),
\* the repository handle is released exactly once and the loaded key is
\* freed before the operation ends, and none ends holding the lock.
C9_ResourcesReleasedOnEveryPath ==
    \A p \in Procs :
        Ended(p) /\ Did(p, "open") =>
            /\ Times(p, "release") = 1
            /\ repo[p].handle = "released"
            /\ rsa[p] # "loaded"
            /\ lockOwner # p

\* the repository starts unsigned or fully signed
InitConsistent ==
    /\ Init
    /\ repodata.idxmeta \in {xbps_dictionary_create, SignedMeta(1, "alice")}

SpecConsistent == InitConsistent /\ [][Next]_vars

\* C10: after any sequence of sign_repo invocations, flushes succeeding or
\* failing, on a repository that starts unsigned or fully signed, the four
\* metadata fields are all absent or all present, and when present are
\* those of one (key, signer name) pair with signature-type "rsa".
C10_MetadataAllOrNothing ==
    \/ DOMAIN repodata.idxmeta = {}
    \/ \E k \in Keys, sb \in Signers :
         /\ DOMAIN repodata.idxmeta = Fields
         /\ repodata.idxmeta["public-key"] = [bytes |-> pubkey_from_privkey(k)]
         /\ repodata.idxmeta["public-key-size"] = RSA_size(k) * 8
         /\ repodata.idxmeta["signature-by"] = sb
         /\ repodata.idxmeta["signature-type"] = "rsa"

\* all invocations have ended, one flush succeeded after another failed to
\* write, and the repository carries the metadata of the one that succeeded
C10_Witness ==
    \E p, q \in Procs :
        /\ \A r \in Procs : Ended(r)
        /\ Did(p, "flush") /\ Did(q, "flush_failed")
        /\ lastWriter = p
        /\ repodata.idxmeta = SignedMeta(privkey[p], signedby[p])
        /\ repodata.idxmeta # repo[p].idxmeta

\* the metadata the invocation read has its key and that key's size, and a
\* signer name other than its own
OnlySignerDiffers(p) ==
    LET m == repo[p].idxmeta
    IN /\ DOMAIN m = Fields
       /\ m["public-key"] = [bytes |-> pubkey_from_privkey(privkey[p])]
       /\ m["public-key-size"] = RSA_size(privkey[p]) * 8
       /\ m["signature-by"] # signedby[p]

\* C11: when sign_repo rewrites and the flush succeeds, the metadata handed
\* to the flush is a complete replacement built from the current key and
\* the supplied signer name; when only the signer name differs from the
\* stored one a rewrite is forced, and the stored metadata then has the new
\* signature-by with public-key and public-key-size as they were.
C11_RewriteIsCompleteReplacement ==
    \A p \in Procs :
        /\ lastWriter = p =>
             /\ repodata.idxmeta = meta[p]
             /\ DOMAIN repodata.idxmeta = Fields
             /\ repodata.idxmeta["public-key"] =
                    [bytes |-> pubkey_from_privkey(privkey[p])]
             /\ repodata.idxmeta["public-key-size"] = RSA_size(privkey[p]) * 8
             /\ repodata.idxmeta["signature-by"] = signedby[p]
             /\ repodata.idxmeta["signature-type"] = "rsa"
        /\ Compared(p) /\ OnlySignerDiffers(p) =>
             /\ flush[p]
             /\ Returned(p) => LockAttempts(p) = 1
             /\ lastWriter = p =>
                  /\ repodata.idxmeta["signature-by"] # repo[p].idxmeta["signature-by"]
                  /\ repodata.idxmeta["public-key"] = repo[p].idxmeta["public-key"]
                  /\ repodata.idxmeta["public-key-size"] =
                         repo[p].idxmeta["public-key-size"]

\* an invocation that differed from the stored metadata in the signer name
\* only has flushed and returned
C11_Witness ==
    \E p \in Procs :
        /\ OnlySignerDiffers(p) /\ Did(p, "flush") /\ Returned(p)
        /\ lastWriter = p
        /\ repodata.idxmeta["signature-by"] = "bob"
        /\ repo[p].idxmeta["signature-by"] = "alice"

\* C18: the public-key-size sign_repo compares and stores is the key's
\* modulus byte length times 8 as an unsigned 16-bit integer: for keys below
\* 65536 bits it is the key size in bits, untruncated (2048, 4096), and the
\* comparison with the stored value is made on that same value.
C18_KeySizeInBits ==
    \A p \in Procs :
        /\ RSA_size(privkey[p]) * 8 \in {2048, 4096}
        /\ Compared(p) /\ flush[p] =>
             meta[p]["public-key-size"] = RSA_size(privkey[p]) * 8
        /\ lastWriter = p =>
             repodata.idxmeta["public-key-size"] = RSA_size(privkey[p]) * 8
        /\ Compared(p) /\ "public-key-size" \in DOMAIN repo[p].idxmeta
              /\ repo[p].idxmeta["public-key-size"] # RSA_size(privkey[p]) * 8
             => flush[p]
        /\ Compared(p) /\ repo[p].idxmeta = SignedMeta(privkey[p], signedby[p])
             => ~flush[p]

\* a 4096-bit key was stored over a 2048-bit one, and a later invocation
\* with the 4096-bit key found the stored size equal
C18_Witness ==
    \E p, q \in Procs :
        /\ privkey[p] = 2 /\ Did(p, "flush")
        /\ DOMAIN repo[p].idxmeta = Fields /\ DOMAIN repo[q].idxmeta = Fields
        /\ repo[p].idxmeta["public-key-size"] = 2048
        /\ repo[q].writer = p /\ privkey[q] = 2
        /\ repo[q].idxmeta["public-key-size"] = 4096
        /\ Compared(q) /\ ~flush[q]

\* C19: no committed index update is lost by sign_repo: when another
\* process rewrites the index under the repository lock between this
\* invocation's open and its flush, the index its flush writes is the index
\* on disk at the time it holds the lock, not the one it read at open time.
C19_FlushKeepsCommittedIndex ==
    [][\A p \in Procs :
          pc[p] = "flush" /\ lastWriter' = p /\ pc'[p] = "unlock"
              /\ repodata' # repodata
            => repodata'.idx = repodata.idx]_vars

\* the calls of sign_pkg made so far: run number and position in its log
SignPkgCalls == {c \in (1..Len(runs)) \X (1..Cardinality(BinPkgs)) :
                   c[2] <= Len(runs[c[1]].log)}

\* the record of call c
Call(c) == runs[c[1]].log[c[2]]

\* call c took step op
Took(c, op) == \E n \in DOMAIN Call(c).ops : Call(c).ops[n] = op

\* C12: sign_pkg with force = false on a package whose .sig file exists and
\* is readable skips the package: it returns 0, leaves the .sig file as it
\* was, does not load the key, does not read the package file, and the loop
\* goes on to the next package.
C12_SkipIfExists ==
    \A c \in SignPkgCalls :
        ~runs[c[1]].force /\ Call(c).before.exists /\ Call(c).before.readable
          => /\ Call(c).why = "skipped"
             /\ Call(c).rv = 0
             /\ Call(c).after = Call(c).before
             /\ ~Took(c, "load_rsa_key")
             /\ ~Took(c, "sha256")
             /\ runs[c[1]].i > c[2]
             /\ runs[c[1]].pc = "done" /\ Len(runs[c[1]].log) = c[2]
                  => runs[c[1]].ret = 0

\* a package with a signature was skipped and the next one was then signed
C12_Witness ==
    \E c, d \in SignPkgCalls :
        /\ c[1] = d[1] /\ d[2] = c[2] + 1
        /\ ~runs[c[1]].force
        /\ Call(c).before.exists /\ Call(c).before.readable
        /\ Call(c).why = "skipped"
        /\ Call(d).why = "signed"

\* the signature of the package of call c, over its content and with the
\* key of its run
SigOfCall(c) ==
    RSA_sign(runs[c[1]].privkey, Sha256(runs[c[1]].fs0[Call(c).binpkg].data))

\* call c met an error of the file system: the signature file could not be
\* opened although it exists or may be created, or the write came up short
IOError(c) == Call(c).why \in {"create_failed:EACCES", "write_failed"}

\* C13: whenever sign_pkg does not skip and key loading, digesting and
\* signing succeed, it writes the signature file for both values of force
\* (creating it if none existed, truncating and overwriting an existing one
\* when force is true), returns 0, and the .sig file holds exactly the
\* signature of the current package content.  Errors of the file system at
\* open or write are left out.
C13_SignatureWrittenForBothForceValues ==
    \A c \in SignPkgCalls :
        Took(c, "open") /\ ~IOError(c)
          => /\ Call(c).rv = 0
             /\ Call(c).after.exists
             /\ Call(c).after.data = SigOfCall(c)

\* C14: sign_pkg with force = true on a package that already has a .sig
\* file, whatever that file held, leaves after a successful run a .sig file
\* that is exactly the signature over the package's current content, with
\* nothing of the previous content.
C14_ForceOverwrites ==
    \A c \in SignPkgCalls :
        runs[c[1]].force /\ Call(c).before.exists /\ Call(c).why = "signed"
          => /\ Call(c).rv = 0
             /\ Call(c).after.exists
             /\ Call(c).after.data = SigOfCall(c)

\* a longer signature made with another key over other content was
\* replaced by the current one
C14_Witness ==
    \E c \in SignPkgCalls :
        /\ runs[c[1]].force /\ Call(c).why = "signed"
        /\ Call(c).before.exists
        /\ Len(Call(c).before.data) > Len(SigOfCall(c))
        /\ Call(c).before.data[1][1] # runs[c[1]].privkey
        /\ Call(c).after.data = SigOfCall(c)

\* run r has ended, by return or by exit
RunEnded(r) == runs[r].pc \in {"done", "exited"}

\* the files as run r left them (for the run in progress: as they are)
FsAfter(r) == IF r < Len(runs) THEN runs[r + 1].fs0 ELSE fs

\* call c signed or skipped its package
SignedOrSkipped(c) == Call(c).why \in {"signed", "skipped"}

\* C15: sign_pkgs takes the packages in list order and stops at the first
\* one whose signing fails: every package before it was signed or skipped,
\* the failure comes back non-zero, no later package is attempted and no
\* later package's .sig file is created or changed; the result is 0 only
\* if every package of the list was signed or skipped.
C15_FailFastInOrder ==
    \A r \in 1..Len(runs) :
        /\ Len(runs[r].log) <= Len(runs[r].argv)
        /\ \A j \in 1..Len(runs[r].log) :
              /\ runs[r].log[j].binpkg = runs[r].argv[j]
              /\ ~SignedOrSkipped(<<r, j>>)
                   => /\ j = Len(runs[r].log)
                      /\ RunEnded(r)
                      /\ runs[r].ret # 0
                      /\ \A k \in (j + 1)..Len(runs[r].argv) :
                            FsAfter(r)[SigFileOf(runs[r].argv[k])]
                              = runs[r].fs0[SigFileOf(runs[r].argv[k])]
        /\ RunEnded(r) /\ runs[r].ret = 0
             => /\ Len(runs[r].log) = Len(runs[r].argv)
                /\ \A j \in 1..Len(runs[r].log) : SignedOrSkipped(<<r, j>>)

\* over a, b, c with b unreadable: a was signed, b failed, the run
\* returned EINVAL and c has no signature
C15_Witness ==
    \E r \in 1..Len(runs) :
        /\ Len(runs[r].argv) = 3 /\ Len(runs[r].log) = 2
        /\ runs[r].log[1].why = "signed"
        /\ runs[r].log[2].why = "digest_failed"
        /\ runs[r].pc = "done" /\ runs[r].ret = EINVAL
        /\ ~FsAfter(r)[SigFileOf(runs[r].argv[3])].exists

\* every run so far was made without force, and the first one started with
\* no signature file at all
UnforcedFromScratch ==
    /\ runs # <<>>
    /\ \A r \in 1..Len(runs) : ~runs[r].force
    /\ \A b \in BinPkgs : ~runs[1].fs0[SigFileOf(b)].exists

\* some call signed package b to the end
SigningCompleted(b) ==
    \E c \in SignPkgCalls : Call(c).binpkg = b /\ Call(c).why = "signed"

\* C16: after any sequence of sign_pkgs runs with force = false over
\* unchanging packages that start with no .sig files, a package has a .sig
\* file if and only if a signing of it completed, and that file holds the
\* complete signature; a package whose signing failed at the digest, sign,
\* create or write step has no .sig file a later run would skip.
C16_SigFileIffSigningCompleted ==
    UnforcedFromScratch
      => \A b \in BinPkgs :
            /\ fs[SigFileOf(b)].exists <=> SigningCompleted(b)
            /\ fs[SigFileOf(b)].exists
                 => fs[SigFileOf(b)].data
                      = RSA_sign(runs[1].privkey, Sha256(fs[b].data))

\* run r + 1 is a re-run of run r: both made without force, over the same
\* list (the package files never change)
ReRun(r) ==
    /\ r + 1 <= Len(runs)
    /\ RunEnded(r)
    /\ ~runs[r].force /\ ~runs[r + 1].force
    /\ runs[r + 1].argv = runs[r].argv

\* the position at which run r failed, if it did
FailedAt(r, j) == j = Len(runs[r].log) /\ ~SignedOrSkipped(<<r, j>>)

\* C17: re-running sign_pkgs with force = false is idempotent: after a run
\* that returned 0, a second run over the same list and unchanged files
\* skips every package, leaves every .sig file unchanged and returns 0;
\* after a run that failed at some package, the re-run leaves the .sig files
\* of the packages before it unchanged and resumes at that package, the
\* first unsigned one.
C17_ReRunIdempotentAndResumes ==
    \A r \in 1..Len(runs) :
        ReRun(r)
          => /\ runs[r].pc = "done" /\ runs[r].ret = 0
                  => /\ \A j \in 1..Len(runs[r + 1].log) :
                           /\ runs[r + 1].log[j].why = "skipped"
                           /\ runs[r + 1].log[j].after = runs[r + 1].log[j].before
                     /\ RunEnded(r + 1)
                          => /\ runs[r + 1].ret = 0
                             /\ Len(runs[r + 1].log) = Len(runs[r].argv)
                             /\ FsAfter(r + 1) = runs[r + 1].fs0
             /\ \A j \in 1..Len(runs[r].log) :
                   FailedAt(r, j)
                     => \A k \in 1..Len(runs[r + 1].log) :
                           /\ k < j => /\ runs[r + 1].log[k].why = "skipped"
                                       /\ runs[r + 1].log[k].after
                                            = runs[r + 1].log[k].before
                           /\ k = j => runs[r + 1].log[k].why # "skipped"

\* C20: the package-signing path changes only the .sig files of the
\* packages in its input list: whatever the list and the outcome, no step
\* of sign_pkgs changes a package file, the .sig file of a package outside
\* the list, the repository index or its metadata, or the repository lock.
C20_OnlyListedSigFilesChange ==
    [][/\ repodata' = repodata
       /\ lockOwner' = lockOwner
       /\ lastWriter' = lastWriter
       /\ calls' = calls
       /\ \A q \in DOMAIN fs :
             fs'[q] # fs[q]
               => /\ runs # <<>>
                  /\ \E k \in DOMAIN runs[Len(runs)].argv :
                        q = Append(runs[Len(runs)].argv[k], "sig")
       /\ DOMAIN fs' = DOMAIN fs]_vars

\* a run over b, a replaced a.xbps.sig while c.xbps.sig, which exists, and
\* the package files are as they were
C20_Witness ==
    \E c \in SignPkgCalls :
        /\ Len(runs[c[1]].argv) = 2
        /\ Call(c).why = "signed" /\ Call(c).before.exists
        /\ FsAfter(c[1])[<<"c.xbps", "sig">>].exists
        /\ FsAfter(c[1])[<<"c.xbps", "sig">>]
             = runs[c[1]].fs0[<<"c.xbps", "sig">>]
        /\ FsAfter(c[1])[Call(c).binpkg] = runs[c[1]].fs0[Call(c).binpkg]
        /\ FsAfter(c[1])[Append(Call(c).binpkg, "sig")]
             # runs[c[1]].fs0[Append(Call(c).binpkg, "sig")]

====
